---- MODULE Spec2Model ----
(***************************************************************************)
(* A model of web_bootanimation.py: the archive builder                    *)
(* create_bootanimation_zip, stepped through its file-system effects, and  *)
(* the three HTTP handlers that call it or serve its result.               *)
(*                                                                         *)
(* Strings are sequences of one-character strings, so that formatting      *)
(* ("%04d", str(int)), Python's string comparison (sorted) and the path    *)
(* functions of os.path are computed character by character.               *)
(***************************************************************************)
EXTENDS Integers, Sequences, FiniteSets, TLC

VARIABLES
  fs,      \* the file system: path -> node (directory, file or zip archive)
  call,    \* per request slot: handler, position and locals of the call
  used,    \* session identifiers uuid4 has handed out so far
  last     \* the direct caller's last completed call: arguments, outcome, snapshot

vars == <<fs, call, used, last>>

----------------------------------------------------------------------------
(* Bounds of the model.                                                    *)

MaxCalls == 2      \* direct calls of the builder on one extract_folder
MaxDuration == 2   \* longest ordinary source video, in seconds
MaxShort == 120    \* longest short source video of SpecOrder, in seconds
LongDuration == 10000  \* the long source video of SpecOrder, in seconds

(* Program constants.                                                      *)

PadWidth == 4      \* the 4 of 'frame_%04d.png'

----------------------------------------------------------------------------
(* Strings.                                                                *)

S_desc == <<"d","e","s","c",".","t","x","t">>
S_frame == <<"f","r","a","m","e","_">>
S_png == <<".","p","n","g">>
S_input == <<"i","n","p","u","t",".","m","p","4">>
S_zip == <<"b","o","o","t","a","n","i","m","a","t","i","o","n",".","z","i","p">>
S_frames == <<"f","r","a","m","e","s">>
S_bootanim == <<"b","o","o","t","a","n","i","m","_">>
S_tmp == <<"/","t","m","p">>
S_part0 == <<"p","a","r","t","0">>
S_part1 == <<"p","a","r","t","1">>
S_clip == <<"c","l","i","p">>
S_mp4 == <<".","m","p","4">>
S_junk == <<"j","u","n","k">>
S_old == <<"o","l","d",".","t","x","t">>
S_work == <<"w","o","r","k">>

\* The characters of the names above in code-point order ('.' < digits < '_' < letters).
CodePoints ==
  <<".","0","1","2","3","4","5","6","7","8","9","_",
    "a","b","c","d","e","f","g","h","i","j","k","l","m",
    "n","o","p","q","r","s","t","u","v","w","x","y","z">>

Ord == [c \in {CodePoints[i] : i \in 1..Len(CodePoints)} |->
          CHOOSE i \in 1..Len(CodePoints) : CodePoints[i] = c]

\* Python's str < str: the first differing character decides, a proper prefix is smaller.
StrLess(a, b) ==
  LET m == IF Len(a) < Len(b) THEN Len(a) ELSE Len(b)
      diff == {i \in 1..m : a[i] # b[i]}
  IN  IF diff = {} THEN Len(a) < Len(b)
      ELSE LET k == CHOOSE i \in diff : \A j \in diff : i <= j
           IN  Ord[a[k]] < Ord[b[k]]

Digit(d) == <<"0","1","2","3","4","5","6","7","8","9">>[d + 1]

RECURSIVE Dec(_)
\* str(n) of an int n: its decimal digits, '-' first when negative.
Dec(n) ==
  IF n < 0 THEN <<"-">> \o Dec(-n)
  ELSE IF n < 10 THEN <<Digit(n)>>
  ELSE Dec(n \div 10) \o <<Digit(n % 10)>>

\* '%04d' % n for n >= 0: zero-padded on the left to at least PadWidth digits.
Pad(n) ==
  LET d == Dec(n)
  IN  IF Len(d) >= PadWidth THEN d
      ELSE [i \in 1..(PadWidth - Len(d)) |-> "0"] \o d

\* The i-th file ffmpeg's image2 muxer writes for the pattern 'frame_%04d.png'.
FrameName(i) == S_frame \o Pad(i) \o S_png

RECURSIVE LowerBound(_, _, _, _)
\* The number of elements of the sorted sequence b[lo+1..hi] ... below x, plus lo.
LowerBound(b, x, lo, hi) ==
  IF lo >= hi THEN lo
  ELSE LET mid == (lo + hi + 1) \div 2
       IN  IF StrLess(b[mid], x) THEN LowerBound(b, x, mid, hi)
           ELSE LowerBound(b, x, lo, mid - 1)

RECURSIVE Merge(_, _)
Merge(a, b) ==
  IF Len(a) = 0 THEN b
  ELSE IF Len(b) = 0 THEN a
  ELSE LET mid == (Len(a) + 1) \div 2
           r == LowerBound(b, a[mid], 0, Len(b))
       IN  Merge(SubSeq(a, 1, mid - 1), SubSeq(b, 1, r)) \o <<a[mid]>>
             \o Merge(SubSeq(a, mid + 1, Len(a)), SubSeq(b, r + 1, Len(b)))

RECURSIVE sorted(_)
\* sorted(files): the names in ascending str order.
sorted(s) ==
  IF Len(s) <= 1 THEN s
  ELSE LET h == Len(s) \div 2
       IN  Merge(sorted(SubSeq(s, 1, h)), sorted(SubSeq(s, h + 1, Len(s))))

----------------------------------------------------------------------------
(* The file system.  fs maps each existing path to a node; a directory     *)
(* node lists its entries in creation order, a zip node lists the members  *)
(* written so far and whether its central directory has been written.      *)
(* "by" is the request slot that wrote the node.                           *)

DirNode(by) ==
  [kind |-> "dir", entries |-> <<>>, data |-> <<>>, members |-> <<>>,
   closed |-> FALSE, by |-> by]

FileNode(data, by) ==
  [kind |-> "file", entries |-> <<>>, data |-> data, members |-> <<>>,
   closed |-> FALSE, by |-> by]

ZipNode(members, closed, by) ==
  [kind |-> "zip", entries |-> <<>>, data |-> <<>>, members |-> members,
   closed |-> closed, by |-> by]

NoNode == [kind |-> "none", entries |-> <<>>, data |-> <<>>, members |-> <<>>,
           closed |-> FALSE, by |-> 0]

Exists(f, p) == p \in DOMAIN f

IsDir(f, p) == Exists(f, p) /\ f[p].kind = "dir"

RECURSIVE RFind(_, _)
\* p.rfind('/') within the first i characters of p (0: none).
RFind(p, i) == IF i = 0 \/ p[i] = "/" THEN i ELSE RFind(p, i - 1)

\* The place of the last '/' of p (0: none).
LastSep(p) == RFind(p, Len(p))

\* os.path.dirname(p).
Parent(p) == SubSeq(p, 1, LastSep(p) - 1)

\* os.path.basename(p).
Base(p) == SubSeq(p, LastSep(p) + 1, Len(p))

\* Whether q is p or lies below the directory p.
IsPrefix(p, q) ==
  \/ q = p
  \/ Len(q) > Len(p) /\ SubSeq(q, 1, Len(p)) = p /\ q[Len(p) + 1] = "/"

\* os.path.join(folder, name) for a relative name.
Join(folder, name) == folder \o <<"/">> \o name

\* os.path.relpath(path, start) for a path below start.
RelPath(path, start) == SubSeq(path, Len(start) + 2, Len(path))

\* The node at p is created or replaced; a new name is entered in its directory.
Put(f, p, node) ==
  IF p \in DOMAIN f THEN [f EXCEPT ![p] = node]
  ELSE [(p :> node) @@ f EXCEPT ![Parent(p)].entries = Append(@, Base(p))]

\* shutil.rmtree(p): p and everything below it is removed.
RmTree(f, p) ==
  LET folder == Parent(p) IN
  [q \in {q \in DOMAIN f : ~IsPrefix(p, q)} |->
     IF q = folder
     THEN [f[q] EXCEPT !.entries = SelectSeq(@, LAMBDA n : n # Base(p))]
     ELSE f[q]]

RECURSIVE MkdirP(_, _, _)
\* os.makedirs(p, exist_ok=True): p and its missing ancestors are created.
MkdirP(f, p, by) ==
  IF Len(p) = 0 \/ Exists(f, p) THEN f
  ELSE Put(MkdirP(f, Parent(p), by), p, DirNode(by))

----------------------------------------------------------------------------
(* The external tool.  A source video is a file whose data is its duration *)
(* in seconds; a file that is no video holds -1.  ffmpeg's output for      *)
(* fixed inputs is fixed: duration * fps frames, frame i depending on the  *)
(* video, the scale and the rate.                                          *)

ClipName(d) == S_clip \o Dec(d) \o S_mp4

ClipPath(d) == Join(S_tmp, ClipName(d))

JunkPath == Join(S_tmp, S_junk)

Decodable(f, p) == Exists(f, p) /\ f[p].kind = "file" /\ f[p].data[1] >= 0

FrameCount(video, fps) == video[1] * fps

RECURSIVE Val(_)
Val(d) == IF Len(d) = 0 THEN 0
          ELSE 10 * Val(SubSeq(d, 1, Len(d) - 1))
                 + (CHOOSE k \in 0..9 : Digit(k) = d[Len(d)])

\* The frame number in a name 'frame_<digits>.png'.
FrameIndex(name) == Val(SubSeq(name, Len(S_frame) + 1, Len(name) - Len(S_png)))

FrameData(video, width, height, fps, i) == <<video[1], width, height, fps, i>>

\* ffmpeg writes the first k frames of the video into folder as frame_%04d.png.
WriteFrames(f, folder, video, width, height, fps, k, by) ==
  LET new == {Join(folder, FrameName(i)) : i \in 1..k}
  IN  [q \in DOMAIN f \cup new |->
         IF q \in new
         THEN FileNode(FrameData(video, width, height, fps, FrameIndex(Base(q))), by)
         ELSE IF q = folder
         THEN [f[q] EXCEPT !.entries = @ \o [i \in 1..k |-> FrameName(i)]]
         ELSE f[q]]

----------------------------------------------------------------------------
(* create_bootanimation_zip, one operator per statement.  c is the record  *)
(* of the call's arguments and locals.                                     *)

part_folder(c) == Join(c.extract_folder, c.part_name)

desc_file_path(c) == Join(c.extract_folder, S_desc)

\* Lines 44-45.
CleanFs(f, c) ==
  IF Exists(f, c.extract_folder) THEN RmTree(f, c.extract_folder) ELSE f

\* Scratch preparation that keeps what the folder holds (exist_ok, no rmtree).
ScratchFsKeep(f, c, by) ==
  MkdirP(MkdirP(f, c.extract_folder, by), part_folder(c), by)

\* Lines 44-49, scratch preparation: after rmtree neither folder exists, so
\* neither os.makedirs finds its target and raises FileExistsError.
ScratchFs(f, c, by) ==
  MkdirP(MkdirP(CleanFs(f, c), c.extract_folder, by), part_folder(c), by)

\* A descriptor with height and width in each other's place.
DescTextSwapped(c) ==
  Dec(c.height) \o <<" ">> \o Dec(c.width) \o <<" ">> \o Dec(c.fps) \o <<"\n">>
  \o <<"p", " ">> \o Dec(c.loop_count) \o <<" ">> \o Dec(c.pause) \o <<" ">>
  \o c.part_name \o <<"\n">>

\* Line 65 and line 66: the two lines of desc.txt.
DescText(c) ==
  Dec(c.width) \o <<" ">> \o Dec(c.height) \o <<" ">> \o Dec(c.fps) \o <<"\n">>
  \o <<"p", " ">> \o Dec(c.loop_count) \o <<" ">> \o Dec(c.pause) \o <<" ">>
  \o c.part_name \o <<"\n">>

\* Lines 64-66: open(desc_file_path, "w") truncates, then both lines are written.
DescFs(f, c, by) == Put(f, desc_file_path(c), FileNode(DescText(c), by))

\* An archive opened in mode "a": what the file holds is kept.
ZipOpenAppend(f, c, by) ==
  IF Exists(f, c.output_zip) /\ f[c.output_zip].kind = "zip"
  THEN [f EXCEPT ![c.output_zip].closed = FALSE]
  ELSE Put(f, c.output_zip, ZipNode(<<>>, FALSE, by))

\* Line 69: ZipFile(output_zip, "w") creates or truncates the file.
ZipOpenFs(f, c, by) == Put(f, c.output_zip, ZipNode(<<>>, FALSE, by))

\* Lines 72 and 78: zipf.write(file_path, rel_path), for each path of srcs in turn.
ZipWriteFs(f, c, srcs) ==
  [f EXCEPT ![c.output_zip].members =
     @ \o [k \in 1..Len(srcs) |->
             LET node == f[srcs[k]]
             IN  [name |-> RelPath(srcs[k], c.extract_folder),
                  data |-> node.data, by |-> node.by]]]

\* The end of the with block of line 69: close() writes the central directory.
ZipCloseFs(f, c, ok) == [f EXCEPT ![c.output_zip].closed = ok]

Reverse(s) == [i \in 1..Len(s) |-> s[Len(s) + 1 - i]]

\* Lines 74-75: the files os.walk lists for part_folder (in creation order or
\* its reverse: the order of a directory listing is not specified), sorted.
\* A missing folder lists nothing.
WalkFiles(f, c, rev) ==
  IF ~IsDir(f, part_folder(c)) THEN <<>>
  ELSE LET listing == SelectSeq(f[part_folder(c)].entries,
                         LAMBDA n : f[Join(part_folder(c), n)].kind # "dir")
       IN  sorted(IF rev THEN Reverse(listing) ELSE listing)

\* A loop that stops one file early.
FramePathsShort(c, files) ==
  [k \in 1..(Len(files) - 1) |-> Join(part_folder(c), files[k])]

\* Line 76: file_path of every listed file, in the order of the loop.
FramePaths(c, files) == [k \in 1..Len(files) |-> Join(part_folder(c), files[k])]

----------------------------------------------------------------------------
(* Calls.  A slot holds one call of create_bootanimation_zip: who made it,  *)
(* where it stands, its arguments and its locals.                          *)

\* Two requests in flight at a time.
Slots == {1, 2}

NoCall ==
  [handler |-> "none", pc |-> "idle", sid |-> <<>>, video_path |-> <<>>,
   output_zip |-> <<>>, extract_folder |-> <<>>, width |-> 0, height |-> 0,
   fps |-> 0, loop_count |-> 0, pause |-> 0, part_name |-> <<>>,
   files |-> <<>>, i |-> 0, status |-> 0, body |-> NoNode, built |-> FALSE,
   stale |-> 0]

\* Lines 171-183 and 247-260: output_zip and extract_folder lie in temp_dir.
NewCall(handler, sid, video_path, temp_dir, a) ==
  [handler |-> handler, pc |-> "scratch", sid |-> sid, video_path |-> video_path,
   output_zip |-> Join(temp_dir, S_zip), extract_folder |-> Join(temp_dir, S_frames),
   width |-> a.width, height |-> a.height, fps |-> a.fps,
   loop_count |-> a.loop_count, pause |-> a.pause, part_name |-> a.part_name,
   files |-> <<>>, i |-> 0, status |-> 0, body |-> NoNode, built |-> FALSE,
   stale |-> 0]

Goto(r, pc) == call' = [call EXCEPT ![r].pc = pc]

\* Lines 43-49.
Scratch(r) ==
  /\ call[r].pc = "scratch"
  /\ fs' = ScratchFs(fs, call[r], r)
  /\ Goto(r, "ffmpeg")
  /\ UNCHANGED <<used, last>>

\* Lines 53-60: .run() raises ffmpeg.Error when ffmpeg cannot read the video
\* or cannot write into part_folder.
Ffmpeg(r) ==
  LET c == call[r] IN
  /\ c.pc = "ffmpeg"
  /\ IF Decodable(fs, c.video_path) /\ IsDir(fs, part_folder(c))
     THEN /\ fs' = WriteFrames(fs, part_folder(c), fs[c.video_path].data, c.width,
                               c.height, c.fps,
                               FrameCount(fs[c.video_path].data, c.fps), r)
          /\ Goto(r, "desc")
     ELSE /\ fs' = fs
          /\ Goto(r, "raise")
  /\ UNCHANGED <<used, last>>

\* Lines 62-66.
WriteDesc(r) ==
  LET c == call[r] IN
  /\ c.pc = "desc"
  /\ IF IsDir(fs, c.extract_folder)
     THEN fs' = DescFs(fs, c, r) /\ Goto(r, "zipopen")
     ELSE fs' = fs /\ Goto(r, "raise")
  /\ UNCHANGED <<used, last>>

\* Line 69.
ZipOpen(r) ==
  LET c == call[r] IN
  /\ c.pc = "zipopen"
  /\ IF IsDir(fs, Parent(c.output_zip))
     THEN fs' = ZipOpenFs(fs, c, r) /\ Goto(r, "zipdesc")
     ELSE fs' = fs /\ Goto(r, "raise")
  /\ UNCHANGED <<used, last>>

\* Lines 71-72.  An exception inside the with block closes the archive first.
ZipDesc(r) ==
  LET c == call[r] IN
  /\ c.pc = "zipdesc"
  /\ IF Exists(fs, desc_file_path(c))
     THEN fs' = ZipWriteFs(fs, c, <<desc_file_path(c)>>) /\ Goto(r, "walk")
     ELSE fs' = ZipCloseFs(fs, c, TRUE) /\ Goto(r, "raise")
  /\ UNCHANGED <<used, last>>

\* Lines 74-75: the first directory os.walk yields, its files sorted.
Walk(r) ==
  /\ call[r].pc = "walk"
  /\ \E rev \in BOOLEAN :
       call' = [call EXCEPT ![r].pc = "zipframe",
                            ![r].files = WalkFiles(fs, call[r], rev),
                            ![r].i = 1]
  /\ UNCHANGED <<fs, used, last>>

\* Lines 75-78, one turn of the loop.
ZipFrame(r) ==
  LET c == call[r]
      src == FramePaths(c, c.files)[c.i] IN
  /\ c.pc = "zipframe"
  /\ c.i <= Len(FramePaths(c, c.files))
  /\ IF Exists(fs, src)
     THEN /\ fs' = ZipWriteFs(fs, c, <<src>>)
          /\ call' = [call EXCEPT ![r].i = c.i + 1]
     ELSE /\ fs' = ZipCloseFs(fs, c, TRUE)
          /\ Goto(r, "raise")
  /\ UNCHANGED <<used, last>>

\* The end of the with block (line 78 to 80) once the loop is over.
ZipClose(r) ==
  LET c == call[r] IN
  /\ c.pc = "zipframe"
  /\ c.i > Len(FramePaths(c, c.files))
  /\ fs' = ZipCloseFs(fs, c, TRUE)
  /\ Goto(r, "return")
  /\ UNCHANGED <<used, last>>

\* The environment fails the statement the call stands at (an I/O error, a full
\* disk, ffmpeg exiting non-zero), leaving what the statement had done so far:
\* lines 44-49 the folder removed or untouched, ffmpeg some of its frames,
\* open(.., "w") an empty desc.txt, and the with block of line 69 an archive
\* with the members written so far, closed by __exit__ if that still works.
Fault(r) ==
  LET c == call[r] IN
  /\ c.pc \in {"scratch", "ffmpeg", "desc", "zipopen", "zipdesc", "zipframe"}
  /\ \/ c.pc = "scratch" /\ fs' \in {fs, CleanFs(fs, c)}
     \/ /\ c.pc = "ffmpeg"
        /\ Decodable(fs, c.video_path) /\ IsDir(fs, part_folder(c))
        /\ \E k \in 0..FrameCount(fs[c.video_path].data, c.fps) :
             fs' = WriteFrames(fs, part_folder(c), fs[c.video_path].data,
                               c.width, c.height, c.fps, k, r)
     \/ /\ c.pc = "desc"
        /\ IsDir(fs, c.extract_folder)
        /\ fs' \in {fs, Put(fs, desc_file_path(c), FileNode(<<>>, r))}
     \/ c.pc = "zipopen" /\ fs' = fs
     \/ /\ c.pc \in {"zipdesc", "zipframe"}
        /\ \E ok \in BOOLEAN : fs' = ZipCloseFs(fs, c, ok)
  /\ Goto(r, "raise")
  /\ UNCHANGED <<used, last>>

Step(r) ==
  \/ Scratch(r) \/ Ffmpeg(r) \/ WriteDesc(r) \/ ZipOpen(r) \/ ZipDesc(r)
  \/ Walk(r) \/ ZipFrame(r) \/ ZipClose(r) \/ Fault(r)

----------------------------------------------------------------------------
(* The HTTP handlers.                                                      *)

\* The session identifiers: as many as there are requests to hand them to.
UUIDs == {<<"u", Digit(k)>> : k \in 1..Cardinality(Slots)}

\* An identifier source that may repeat itself.
AnySids(seen) == UUIDs

\* Line 162, 214, 234: uuid.uuid4() returns an identifier not handed out before.
FreshSids(seen) == UUIDs \ seen

\* Lines 163, 215, 235, 276: the session's directory below tempfile.gettempdir().
TempDir(sid) == Join(S_tmp, S_bootanim \o sid)

\* What a request may ask for; the form offers 0 for "the video's own size".
ServerArgs ==
  {[width |-> 0, height |-> 0, fps |-> 1, loop_count |-> 0, pause |-> 0,
    part_name |-> S_part0],
   [width |-> 2, height |-> 3, fps |-> 1, loop_count |-> 0, pause |-> 0,
    part_name |-> S_part0]}

\* The uploaded video: one second long.
Upload == <<1>>

\* Lines 150-172: the upload is saved as temp_dir/input.mp4.
ConvertForm(r) ==
  /\ call[r].handler = "none"
  /\ \E sid \in FreshSids(used), a \in ServerArgs :
       LET temp_dir == TempDir(sid)
           input_video_path == Join(temp_dir, S_input) IN
       /\ fs' = Put(MkdirP(fs, temp_dir, r), input_video_path, FileNode(Upload, r))
       /\ call' = [call EXCEPT ![r] =
                     NewCall("convert_form", sid, input_video_path, temp_dir, a)]
       /\ used' = used \cup {sid}
  /\ UNCHANGED last

\* Lines 208-226 and 246-248: api_convert with the video uploaded.
ApiConvertUpload(r) ==
  /\ call[r].handler = "none"
  /\ \E sid \in FreshSids(used), a \in ServerArgs :
       LET temp_dir == TempDir(sid)
           input_video_path == Join(temp_dir, S_input) IN
       /\ fs' = Put(MkdirP(fs, temp_dir, r), input_video_path, FileNode(Upload, r))
       /\ call' = [call EXCEPT ![r] =
                     NewCall("api_upload", sid, input_video_path, temp_dir, a)]
       /\ used' = used \cup {sid}
  /\ UNCHANGED last

\* Lines 266-268: the sessions whose identifier a client has been sent: only
\* the download_url of api_convert carries one.
Told ==
  {call[q].sid : q \in {x \in Slots : /\ call[x].handler \in {"api_upload", "api_json"}
                                       /\ call[x].pc = "done"
                                       /\ call[x].status = 200}}

\* Line 233: the video_path a client may name: a video of the server, or the
\* upload of a session it knows the identifier of.
JsonPaths(known) == {ClipPath(1)} \cup {Join(TempDir(sid), S_input) : sid \in known}

\* Lines 228-248: api_convert with the path of a video on the server.
ApiConvertJson(r) ==
  /\ call[r].handler = "none"
  /\ \E sid \in FreshSids(used), a \in ServerArgs, video_path \in JsonPaths(Told) :
       LET temp_dir == TempDir(sid) IN
       /\ fs' = MkdirP(fs, temp_dir, r)
       /\ call' = [call EXCEPT ![r] =
                     NewCall("api_json", sid, video_path, temp_dir, a)]
       /\ used' = used \cup {sid}
  /\ UNCHANGED last

Respond(r, status) ==
  call' = [call EXCEPT ![r].pc = "done", ![r].status = status]

\* Lines 185-190: convert_form sends the archive.
FormSend(r) ==
  /\ call[r].handler = "convert_form" /\ call[r].pc = "return"
  /\ call' = [call EXCEPT ![r].pc = "done", ![r].status = 200,
                          ![r].body = fs[call[r].output_zip]]
  /\ UNCHANGED <<fs, used, last>>

\* convert_form has no try: the exception leaves the handler, Flask answers 500.
FormRaise(r) ==
  /\ call[r].handler = "convert_form" /\ call[r].pc = "raise"
  /\ Respond(r, 500)
  /\ UNCHANGED <<fs, used, last>>

\* Lines 266-268: api_convert answers with the download URL of the session.
ApiRespond(r) ==
  /\ call[r].handler \in {"api_upload", "api_json"} /\ call[r].pc = "return"
  /\ Respond(r, 200)
  /\ UNCHANGED <<fs, used, last>>

\* Lines 261-264.
ApiError(r) ==
  /\ call[r].handler \in {"api_upload", "api_json"} /\ call[r].pc = "raise"
  /\ Respond(r, 500)
  /\ UNCHANGED <<fs, used, last>>

Converting == {"convert_form", "api_upload", "api_json"}

\* Whether the conversion of session sid has returned from the builder.
Built(sid) ==
  \E r \in Slots : /\ call[r].handler \in Converting /\ call[r].sid = sid
                   /\ call[r].pc \in {"return", "done"} /\ call[r].status # 500

\* Lines 270-286: 404 unless the file exists, else the file as it is now.
\* "built" notes whether the session's conversion had returned by then.
ApiDownload(r) ==
  /\ call[r].handler = "none"
  /\ \E session_id \in UUIDs :
       LET output_zip_path == Join(TempDir(session_id), S_zip) IN
       call' = [call EXCEPT ![r] =
                  [NoCall EXCEPT
                     !.handler = "api_download", !.pc = "done", !.sid = session_id,
                     !.status = IF Exists(fs, output_zip_path) THEN 200 ELSE 404,
                     !.body = IF Exists(fs, output_zip_path)
                              THEN fs[output_zip_path] ELSE NoNode,
                     !.built = Built(session_id)]]
  /\ UNCHANGED <<fs, used, last>>

----------------------------------------------------------------------------
(* A direct caller of the builder, calling again and again on one folder.  *)

WorkDir == Join(S_tmp, S_work)

\* Two sets of parameters that differ in every one of them.
BuildArgs ==
  {[width |-> 1, height |-> 3, fps |-> 1, loop_count |-> 0, pause |-> 1,
    part_name |-> S_part0],
   [width |-> 2, height |-> 1, fps |-> 2, loop_count |-> 1, pause |-> 0,
    part_name |-> S_part1]}

\* The videos a call is made on: an empty one, the longest one, and no video.
BuildVideos == {ClipPath(0), ClipPath(MaxDuration), JunkPath}

WorkFrames == Join(WorkDir, S_frames)

\* The files and folders below folder, as a function of their paths relative to it.
Tree(f, folder) ==
  [q \in {RelPath(p, folder) : p \in {p \in DOMAIN f : p # folder /\ IsPrefix(folder, p)}}
     |-> f[Join(folder, q)]]

\* The number of files and folders below folder.
Below(f, folder) ==
  Cardinality({p \in DOMAIN f : p # folder /\ IsPrefix(folder, p)})

Args(c) ==
  [video_path |-> c.video_path, width |-> c.width, height |-> c.height,
   fps |-> c.fps, loop_count |-> c.loop_count, pause |-> c.pause,
   part_name |-> c.part_name]

\* The archive's members in order, each by what it is: 0 for desc.txt, k for
\* <part_name>/frame_<k>.png, -1 for any other.
MemberOrder(members, part_name) ==
  [k \in DOMAIN members |->
     LET name == members[k].name
     IN  IF name = S_desc THEN 0
         ELSE IF Parent(name) = part_name THEN FrameIndex(Base(name))
         ELSE -1]

\* What a completed call leaves: its arguments, whether it returned, the number
\* of frames ffmpeg makes of its video (-1: none, no video), the file at
\* output_zip, the order of its members and the file system.  "stale": the number of files and folders
\* extract_folder held when the call began; "good": the file at output_zip was
\* left by a call that returned; "again": the call before returned as well and
\* had the same arguments; "changed": it returned as well and had other ones.
Snapshot(f, c, ok, before) ==
  LET zip == IF Exists(f, c.output_zip) THEN f[c.output_zip] ELSE NoNode IN
  [n |-> before.n + 1, args |-> Args(c), ok |-> ok,
   frames |-> IF Decodable(f, c.video_path)
              THEN FrameCount(f[c.video_path].data, c.fps) ELSE -1,
   zip |-> zip,
   order |-> MemberOrder(zip.members, c.part_name),
   fs |-> f,
   stale |-> c.stale,
   good |-> ok \/ (before.good /\ zip = before.zip),
   again |-> ok /\ before.ok /\ before.args = Args(c),
   changed |-> ok /\ before.ok /\ before.args # Args(c)]

NoLast ==
  [n |-> 0, args |-> Args(NoCall), ok |-> FALSE, frames |-> -1, zip |-> NoNode,
   order |-> <<>>, fs |-> <<>>, stale |-> 0, good |-> FALSE, again |-> FALSE, changed |-> FALSE]

\* A call create_bootanimation_zip(video_path, WorkDir/bootanimation.zip, ...,
\* extract_folder=WorkDir/frames, ...), lines 26-36.
Invoke(r) ==
  /\ r = 1 /\ call[r].handler = "none" /\ last.n < MaxCalls
  /\ \E video_path \in BuildVideos, a \in BuildArgs :
       call' = [call EXCEPT ![r] =
                  [NewCall("direct", <<>>, video_path, WorkDir, a)
                     EXCEPT !.stale = Below(fs, WorkFrames)]]
  /\ UNCHANGED <<fs, used, last>>

\* Line 80, or the exception leaving the function.
Finish(r) ==
  /\ call[r].handler = "direct" /\ call[r].pc \in {"return", "raise"}
  /\ last' = Snapshot(fs, call[r], call[r].pc = "return", last)
  /\ call' = [call EXCEPT ![r] = NoCall]
  /\ UNCHANGED <<fs, used>>

\* Lines 43-80 from entry to return, with nothing failing.
Whole(f, c, rev, by) ==
  LET f1 == ScratchFs(f, c, by)
      f2 == WriteFrames(f1, part_folder(c), f[c.video_path].data, c.width,
                        c.height, c.fps, FrameCount(f[c.video_path].data, c.fps), by)
      f3 == ZipOpenFs(DescFs(f2, c, by), c, by)
      f4 == ZipWriteFs(f3, c, <<desc_file_path(c)>>)
      f5 == ZipWriteFs(f4, c, FramePaths(c, WalkFiles(f4, c, rev)))
  IN  ZipCloseFs(f5, c, TRUE)

OrderArgs ==
  {[width |-> 1, height |-> 3, fps |-> 1, loop_count |-> 0, pause |-> 0,
    part_name |-> S_part0]}

OrderDurations == (1..MaxShort) \cup {LongDuration}

\* The order of the archive's members as a function of the call's inputs:
\* one whole call is applied to the file system, which itself is left as the
\* input it is, and the order of the members of the archive it builds is kept.
BuildWhole(r) ==
  /\ r = 1 /\ last.n = 0
  /\ \E d \in OrderDurations, a \in OrderArgs, rev \in BOOLEAN :
       LET c == NewCall("direct", <<>>, ClipPath(d), WorkDir, a) IN
       \E zip \in {Whole(fs, c, rev, r)[c.output_zip]} :
       last' = [NoLast EXCEPT !.n = 1, !.args = Args(c), !.ok = zip.closed,
                              !.frames = FrameCount(fs[c.video_path].data, c.fps),
                              !.order = MemberOrder(zip.members, c.part_name)]
  /\ UNCHANGED <<fs, call, used>>

----------------------------------------------------------------------------
(* Initial states and specifications.                                      *)

\* tempfile.gettempdir() with the source videos of durations ds and a file
\* that is no video.
BaseFs(ds) ==
  LET clips == [p \in {ClipPath(d) : d \in ds} |->
                  FileNode(<<CHOOSE d \in ds : ClipPath(d) = p>>, 0)]
      f0 == (S_tmp :> DirNode(0)) @@ clips
  IN  Put([f0 EXCEPT ![S_tmp].entries =
             [k \in 1..Cardinality(ds) |->
                ClipName(CHOOSE d \in ds : Cardinality({e \in ds : e < d}) = k - 1)]],
          JunkPath, FileNode(<<-1>>, 0))

\* Leftovers in WorkDir/frames: a foreign file, an old descriptor, frames of a
\* longer run under each part name.
StaleFs(f) ==
  LET x == Join(WorkDir, S_frames)
      f1 == MkdirP(f, Join(x, S_part1), 0)
      f2 == Put(Put(f1, Join(x, S_old), FileNode(<<"x">>, 0)),
                Join(x, S_desc), FileNode(<<"9", "\n">>, 0))
      f3 == WriteFrames(f2, Join(x, S_part1), <<9>>, 9, 9, 9, MaxDuration * 2 + 1, 0)
  IN  WriteFrames(MkdirP(f3, Join(x, S_part0), 0), Join(x, S_part0),
                  <<9>>, 9, 9, 9, MaxDuration * 2 + 1, 0)

NoCalls == [r \in Slots |-> NoCall]

Init ==
  /\ fs = BaseFs(0..MaxDuration)
  /\ call = NoCalls /\ used = {} /\ last = NoLast

Next ==
  \E r \in Slots :
    \/ ConvertForm(r) \/ ApiConvertUpload(r) \/ ApiConvertJson(r)
    \/ Step(r)
    \/ FormSend(r) \/ FormRaise(r) \/ ApiRespond(r) \/ ApiError(r)
    \/ ApiDownload(r)

Spec == Init /\ [][Next]_vars

InitBuild ==
  /\ \E f \in {MkdirP(BaseFs(0..MaxDuration), WorkDir, 0)} :
       fs \in {f, MkdirP(f, Join(WorkDir, S_frames), 0), StaleFs(f)}
  /\ call = NoCalls /\ used = {} /\ last = NoLast

NextBuild == \E r \in Slots : Invoke(r) \/ Step(r) \/ Finish(r)

SpecBuild == InitBuild /\ [][NextBuild]_vars

InitOrder ==
  /\ fs = MkdirP(BaseFs(OrderDurations), WorkDir, 0)
  /\ call = NoCalls /\ used = {} /\ last = NoLast

NextOrder == \E r \in Slots : BuildWhole(r)

SpecOrder == InitOrder /\ [][NextOrder]_vars

----------------------------------------------------------------------------
(* The claims.  Those about one caller of the builder are read off "last", *)
(* the record of the call that has just ended on WorkDir.                  *)

\* The names of the files directly in folder.
FilesIn(f, folder) ==
  {Base(p) : p \in {q \in DOMAIN f : Parent(q) = folder /\ f[q].kind = "file"}}

\* C1: after every call that returned, the member names of the archive are
\* exactly desc.txt and <part_name>/<file> for every file the extraction left
\* in the part folder, each name once: none missing, none extra.
C1_MembersExact ==
  last.ok =>
    LET frames == FilesIn(last.fs, Join(WorkFrames, last.args.part_name))
        names == {last.zip.members[k].name : k \in DOMAIN last.zip.members}
    IN  /\ names = {S_desc} \cup {Join(last.args.part_name, n) : n \in frames}
        /\ Len(last.zip.members) = Cardinality(names)

\* A call returned with an archive of desc.txt and the most frames a video gives.
C1_Witness ==
  /\ last.ok /\ last.frames = MaxDuration * 2
  /\ Len(last.zip.members) = 1 + MaxDuration * 2
  /\ Cardinality(FilesIn(last.fs, Join(WorkFrames, last.args.part_name)))
       = MaxDuration * 2

\* C2: for every number of frames, the archive of a call that returned holds
\* desc.txt first and then the frames in ascending frame number: its
\* (k+1)-th member is frame number k of <part_name>.
C2_FrameOrder ==
  last.ok => last.order = [k \in 1..(1 + last.frames) |-> k - 1]

\* C3: after every call that returned, desc.txt, in the folder and in the
\* archive, reads "<width> <height> <fps>\n" and then
\* "p <loop_count> <pause> <part_name>\n" with the values of that call.
C3_DescContent ==
  last.ok =>
    LET a == last.args
        first == Dec(a.width) \o <<" ">> \o Dec(a.height) \o <<" ">> \o Dec(a.fps)
        second == <<"p", " ">> \o Dec(a.loop_count) \o <<" ">> \o Dec(a.pause)
                    \o <<" ">> \o a.part_name
        text == first \o <<"\n">> \o second \o <<"\n">>
    IN  /\ last.fs[Join(WorkFrames, S_desc)].data = text
        /\ \E k \in DOMAIN last.zip.members :
             last.zip.members[k].name = S_desc /\ last.zip.members[k].data = text

\* A call returned after a call with other arguments on the same folder, and
\* desc.txt reads "2 1 2\np 1 0 part1\n".
C3_Witness ==
  /\ last.ok /\ last.changed
  /\ last.fs[Join(WorkFrames, S_desc)].data =
       <<"2"," ","1"," ","2","\n","p"," ","1"," ","0"," ","p","a","r","t","1","\n">>

\* C4: a call whose extraction yields no frame does not return, and no file
\* is at output_zip afterwards.
C4_ZeroFramesFail ==
  (last.n > 0 /\ last.frames = 0) => (~last.ok /\ last.zip = NoNode)

\* C5: after a call that failed, output_zip holds no file or a complete
\* archive, one that a call that returned left there.
C5_NoPartialArchive ==
  (last.n > 0 /\ ~last.ok) => (last.zip = NoNode \/ last.good)

\* C6: after a call that returned, extract_folder holds desc.txt, the part
\* folder and the frames of that call and nothing else, whatever it held
\* before, and every member of the archive is one of these files.
C6_NoStale ==
  last.ok =>
    LET a == last.args
        video == last.fs[a.video_path].data
        tree == Tree(last.fs, WorkFrames)
        frame == [i \in 1..last.frames |-> Join(a.part_name, FrameName(i))]
    IN  /\ DOMAIN tree = {S_desc, a.part_name} \cup {frame[i] : i \in 1..last.frames}
        /\ \A i \in 1..last.frames :
             tree[frame[i]].data = FrameData(video, a.width, a.height, a.fps, i)
        /\ \A k \in DOMAIN last.zip.members :
             /\ last.zip.members[k].name \in DOMAIN tree
             /\ last.zip.members[k].data = tree[last.zip.members[k].name].data

\* A call returned that had found more in extract_folder than it has left there.
C6_Witness ==
  /\ last.ok /\ last.frames > 0
  /\ last.stale > Below(last.fs, WorkFrames)

\* C7: a call that returns right after a call that returned with the same
\* arguments leaves the same archive (members, order, contents) and the same
\* extract_folder as that call.
C7_Idempotent ==
  [][(last'.n = last.n + 1 /\ last'.again) =>
       /\ last'.zip = last.zip
       /\ Tree(last'.fs, WorkFrames) = Tree(last.fs, WorkFrames)]_vars

\* Two calls in a row returned with the same arguments and left frames.
C7_Witness ==
  /\ last.again /\ last.n = 2 /\ last.frames = MaxDuration * 2
  /\ Len(last.zip.members) = 1 + last.frames

\* C8: the builder only runs with width > 0 and height > 0: a handler has
\* replaced a zero by the video's own size before it calls the builder.
C8_PositiveDimensions ==
  \A r \in Slots :
    call[r].handler \in Converting => call[r].width > 0 /\ call[r].height > 0

\* The positions of a call at which ffmpeg has read video_path.
Extracted == {"desc", "zipopen", "zipdesc", "walk", "zipframe", "return"}

\* The requests that are converting: received and not yet answered.
InFlight == {r \in Slots : call[r].handler \in Converting /\ call[r].pc # "done"}

C10_DownloadComplete ==
  \A r \in Slots : call[r].handler = "api_download" =>
    IF call[r].built
    THEN call[r].status = 200 /\ call[r].body.closed
    ELSE call[r].status = 404
====
